---- MODULE Spec2Model ----
(***************************************************************************)
(* Preservation Core: the disconnect classification engine                 *)
(* (lib/preservation-core) and the POST /api/preservation-core/classify    *)
(* handler that wraps it.                                                  *)
(*                                                                         *)
(* JavaScript values are records [t, n]: t is the runtime type tag and n   *)
(* the payload.  Every JavaScript number is held in fixed point, as an     *)
(* integer count of hundredths (0.25 is 25, 800 is 80000), so that the     *)
(* fractional thresholds and the millisecond thresholds live on one scale. *)
(* A boolean carries n = 1 for true and n = 0 for false.  A string carries *)
(* n = 0 for a non-numeric text such as "abc" and n = k (k # 0) for the    *)
(* decimal text of the number k/100; every modelled string is non-empty.   *)
(***************************************************************************)
EXTENDS Integers, Sequences, FiniteSets, TLC

VARIABLES call, pc, body, response, classifyCalls, inflight, page, clock, pressed

vars == <<call, pc, body, response, classifyCalls, inflight, page, clock, pressed>>

(***************************************************************************)
(* JavaScript values and the language operations the code applies to them  *)
(***************************************************************************)
Undef == [t |-> "undefined", n |-> 0]

Null == [t |-> "null", n |-> 0]

Bool(b) == [t |-> "boolean", n |-> IF b THEN 1 ELSE 0]

Num(k) == [t |-> "number", n |-> k]

Str(k) == [t |-> "string", n |-> k]

NaN == [nan |-> TRUE, n |-> 0]

\* typeof v
TypeOf(v) == IF v.t = "null" THEN "object" ELSE v.t

\* ToBoolean(v), as applied by if (v) and !v
Truthy(v) ==
    CASE v.t = "undefined" -> FALSE
      [] v.t = "null" -> FALSE
      [] v.t = "boolean" -> v.n = 1
      [] v.t = "number" -> v.n # 0
      [] v.t = "string" -> TRUE
      [] OTHER -> TRUE

\* ToNumber(v), as applied by the relational operators to a non-number
ToNumber(v) ==
    CASE v.t = "undefined" -> NaN
      [] v.t = "null" -> [nan |-> FALSE, n |-> 0]
      [] v.t = "boolean" -> [nan |-> FALSE, n |-> v.n * 100]
      [] v.t = "number" -> [nan |-> FALSE, n |-> v.n]
      [] v.t = "string" -> IF v.n = 0 THEN NaN ELSE [nan |-> FALSE, n |-> v.n]
      [] OTHER -> NaN

\* a < b, a > b, a >= b where at most one operand is a string: both operands
\* go through ToNumber and any comparison with NaN is false
Lt(a, b) == LET x == ToNumber(a) y == ToNumber(b) IN ~x.nan /\ ~y.nan /\ x.n < y.n

Gt(a, b) == LET x == ToNumber(a) y == ToNumber(b) IN ~x.nan /\ ~y.nan /\ x.n > y.n

Ge(a, b) == LET x == ToNumber(a) y == ToNumber(b) IN ~x.nan /\ ~y.nan /\ x.n >= y.n

\* A value in the networkBeforeDisconnect position.  An object carries its
\* three properties; reading a property of a primitive gives undefined.
Snapshot(lat, plr, conn) ==
    [t |-> "object", n |-> 0, latencyMs |-> lat, packetLossRate |-> plr, isConnected |-> conn]

NoSnapshot(v) ==
    [t |-> v.t, n |-> v.n, latencyMs |-> Undef, packetLossRate |-> Undef, isConnected |-> Undef]

(***************************************************************************)
(* lib/preservation-core: thresholds                                       *)
(***************************************************************************)
HIGH_PACKET_LOSS == Num(25)

HIGH_LATENCY_MS == Num(800 * 100)

TIMEOUT_MS == Num(5000 * 100)

(***************************************************************************)
(* lib/preservation-core: classifyDisconnect                               *)
(***************************************************************************)
\* the default written as timeoutThreshold || TIMEOUT_MS: it replaces 0 as well
timeoutThreshold_or(signals) ==
    IF Truthy(signals.timeoutThreshold) THEN signals.timeoutThreshold ELSE TIMEOUT_MS

\* timeoutThreshold = THRESHOLDS.TIMEOUT_MS: the default replaces undefined only
timeoutThreshold(signals) ==
    IF signals.timeoutThreshold.t = "undefined" THEN TIMEOUT_MS ELSE signals.timeoutThreshold

\* quitDetected initialised to false like the four threshold flags
quitDetected_initFalse(signals) == Bool(FALSE)

\* quitDetected: quitAction
quitDetected(signals) == signals.quitAction

\* x !== undefined tested as a truthiness test
contextUsed_truthy(v) == Truthy(v)

\* competitiveAdvantage !== undefined, fairnessConfidence !== undefined
contextUsed(v) == v.t # "undefined"

\* the timeout check
timeoutDetected(signals) ==
    /\ signals.timeSinceLastPacket.t # "undefined"
    /\ Ge(signals.timeSinceLastPacket, timeoutThreshold(signals))

\* the packet-loss threshold compared with > instead of >=
highPacketLoss_strict(net) == Truthy(net) /\ Gt(net.packetLossRate, HIGH_PACKET_LOSS)

\* the three flags evaluated under if (networkBeforeDisconnect); each stays
\* false without a snapshot
highPacketLoss(net) == Truthy(net) /\ Ge(net.packetLossRate, HIGH_PACKET_LOSS)

\* the latency threshold compared with > instead of >=
highLatency_strict(net) == Truthy(net) /\ Gt(net.latencyMs, HIGH_LATENCY_MS)

highLatency(net) == Truthy(net) /\ Ge(net.latencyMs, HIGH_LATENCY_MS)

\* !networkBeforeDisconnect?.isConnected outside the snapshot guard
hardDisconnect_unguarded(net) == ~Truthy(net.isConnected)

hardDisconnect(net) == Truthy(net) /\ ~Truthy(net.isConnected)

\* the signalFlags object after the timeout check and the snapshot evaluation
signalFlags(signals) ==
    [quitDetected |-> quitDetected(signals),
     timeoutDetected |-> timeoutDetected(signals),
     highPacketLoss |-> highPacketLoss(signals.networkBeforeDisconnect),
     highLatency |-> highLatency(signals.networkBeforeDisconnect),
     hardDisconnect |-> hardDisconnect(signals.networkBeforeDisconnect),
     competitiveAdvantageUsed |-> contextUsed(signals.competitiveAdvantage),
     fairnessConfidenceUsed |-> contextUsed(signals.fairnessConfidence)]

hasNetworkProblem_ctx(flags) ==
    \/ flags.timeoutDetected
    \/ flags.highPacketLoss
    \/ flags.highLatency
    \/ flags.hardDisconnect
    \/ flags.competitiveAdvantageUsed
    \/ flags.fairnessConfidenceUsed

\* the network test without the latency flag
hasNetworkProblem_noLatency(flags) ==
    \/ flags.timeoutDetected
    \/ flags.highPacketLoss
    \/ flags.hardDisconnect

hasNetworkProblem(flags) ==
    \/ flags.timeoutDetected
    \/ flags.highPacketLoss
    \/ flags.highLatency
    \/ flags.hardDisconnect

Result(type, loss, flags) == [type |-> type, lossApplied |-> loss, signals |-> flags]

\* rule 2 with a loss applied in the losing-and-settled band
networkProblemResult_loss(signals, flags) ==
    LET ca == signals.competitiveAdvantage
        fc == signals.fairnessConfidence
    IN  IF ca.t # "undefined" \/ fc.t # "undefined"
        THEN IF ca.t # "undefined" /\ Gt(ca, Num(30))
             THEN Result("unintentional_disconnect", FALSE, flags)
             ELSE IF /\ ca.t # "undefined"
                     /\ Lt(ca, Num(-30))
                     /\ fc.t # "undefined"
                     /\ Gt(fc, Num(80))
                  THEN Result("unintentional_disconnect", TRUE, flags)
                  ELSE IF fc.t # "undefined" /\ Lt(fc, Num(30))
                       THEN Result("unintentional_disconnect", FALSE, flags)
                       ELSE Result("unintentional_disconnect", FALSE, flags)
        ELSE Result("unintentional_disconnect", FALSE, flags)

\* rule 2 with the losing-and-settled band treated as a strategic quit
networkProblemResult_strategic(signals, flags) ==
    LET ca == signals.competitiveAdvantage
        fc == signals.fairnessConfidence
    IN  IF /\ ca.t # "undefined"
           /\ ~Gt(ca, Num(30))
           /\ Lt(ca, Num(-30))
           /\ fc.t # "undefined"
           /\ Gt(fc, Num(80))
        THEN Result("intentional_disconnect", TRUE, flags)
        ELSE Result("unintentional_disconnect", FALSE, flags)

\* rule 2 with a wide-open match (fairnessConfidence below 0.3) reported as none
networkProblemResult_uncertainNone(signals, flags) ==
    LET fc == signals.fairnessConfidence
    IN  IF fc.t # "undefined" /\ Lt(fc, Num(30))
        THEN Result("none", FALSE, flags)
        ELSE Result("unintentional_disconnect", FALSE, flags)

\* rule 2: the body of if (hasNetworkProblem), sub-rules 2a, 2b, 2c, 2d in order
networkProblemResult(signals, flags) ==
    LET ca == signals.competitiveAdvantage
        fc == signals.fairnessConfidence
    IN  IF ca.t # "undefined" \/ fc.t # "undefined"
        THEN IF ca.t # "undefined" /\ Gt(ca, Num(30))
             THEN Result("unintentional_disconnect", FALSE, flags)
             ELSE IF /\ ca.t # "undefined"
                     /\ Lt(ca, Num(-30))
                     /\ fc.t # "undefined"
                     /\ Gt(fc, Num(80))
                  THEN Result("unintentional_disconnect", FALSE, flags)
                  ELSE IF fc.t # "undefined" /\ Lt(fc, Num(30))
                       THEN Result("unintentional_disconnect", FALSE, flags)
                       ELSE Result("unintentional_disconnect", FALSE, flags)
        ELSE Result("unintentional_disconnect", FALSE, flags)

\* the network rule tried before the quit rule
classifyDisconnect_netFirst(signals) ==
    LET flags == signalFlags(signals)
    IN  IF hasNetworkProblem(flags)
        THEN networkProblemResult(signals, flags)
        ELSE IF Truthy(signals.quitAction)
             THEN Result("intentional_disconnect", TRUE, flags)
             ELSE Result("none", FALSE, flags)

\* the quit rule sparing a player who was clearly ahead
classifyDisconnect_quitSpared(signals) ==
    LET flags == signalFlags(signals)
    IN  IF Truthy(signals.quitAction)
        THEN Result("intentional_disconnect",
                    ~(flags.competitiveAdvantageUsed /\ Gt(signals.competitiveAdvantage, Num(30))),
                    flags)
        ELSE IF hasNetworkProblem(flags)
             THEN networkProblemResult(signals, flags)
             ELSE Result("none", FALSE, flags)

\* the quit rule returning before the timeout check and the snapshot evaluation
classifyDisconnect_earlyQuit(signals) ==
    LET flags == signalFlags(signals)
    IN  IF Truthy(signals.quitAction)
        THEN Result("intentional_disconnect", TRUE,
                    [flags EXCEPT !.timeoutDetected = FALSE, !.highPacketLoss = FALSE,
                                  !.highLatency = FALSE, !.hardDisconnect = FALSE])
        ELSE IF hasNetworkProblem(flags)
             THEN networkProblemResult(signals, flags)
             ELSE Result("none", FALSE, flags)

classifyDisconnect(signals) ==
    LET flags == signalFlags(signals)
    IN  IF Truthy(signals.quitAction)
        THEN Result("intentional_disconnect", TRUE, flags)
        ELSE IF hasNetworkProblem(flags)
             THEN networkProblemResult(signals, flags)
             ELSE Result("none", FALSE, flags)

(***************************************************************************)
(* scripts/verify-preservation-core-scenarios.js: the stand-alone copy of  *)
(* the classifier, with its own thresholds and five signal flags           *)
(***************************************************************************)
SCRIPT_HIGH_PACKET_LOSS == Num(25)

SCRIPT_HIGH_LATENCY_MS == Num(800 * 100)

SCRIPT_TIMEOUT_MS == Num(5000 * 100)

scriptSignalFlags(signals) ==
    LET net == signals.networkBeforeDisconnect
        tslp == signals.timeSinceLastPacket
        threshold == IF signals.timeoutThreshold.t = "undefined" THEN SCRIPT_TIMEOUT_MS
                     ELSE signals.timeoutThreshold
    IN  [quitDetected |-> signals.quitAction,
         timeoutDetected |-> tslp.t # "undefined" /\ Ge(tslp, threshold),
         highPacketLoss |-> Truthy(net) /\ Ge(net.packetLossRate, SCRIPT_HIGH_PACKET_LOSS),
         highLatency |-> Truthy(net) /\ Ge(net.latencyMs, SCRIPT_HIGH_LATENCY_MS),
         hardDisconnect |-> Truthy(net) /\ ~Truthy(net.isConnected)]

\* a copy whose network test was not updated with the hard-disconnect flag
scriptClassifyDisconnect_stale(signals) ==
    LET flags == scriptSignalFlags(signals)
    IN  IF Truthy(signals.quitAction)
        THEN Result("intentional_disconnect", TRUE, flags)
        ELSE IF flags.timeoutDetected \/ flags.highPacketLoss \/ flags.highLatency
             THEN Result("unintentional_disconnect", FALSE, flags)
             ELSE Result("none", FALSE, flags)

scriptClassifyDisconnect(signals) ==
    LET flags == scriptSignalFlags(signals)
    IN  IF Truthy(signals.quitAction)
        THEN Result("intentional_disconnect", TRUE, flags)
        ELSE IF \/ flags.timeoutDetected
                \/ flags.highPacketLoss
                \/ flags.highLatency
                \/ flags.hardDisconnect
             THEN Result("unintentional_disconnect", FALSE, flags)
             ELSE Result("none", FALSE, flags)

(***************************************************************************)
(* lib/preservation-core: validators                                       *)
(***************************************************************************)
ErrLatency == "latencyMs must be >= 0"

ErrPacketLoss == "packetLossRate must be between 0 and 1"

ErrIsConnected == "isConnected must be a boolean"

ErrAdvantage == "competitiveAdvantage must be between -1.0 and 1.0"

ErrConfidence == "fairnessConfidence must be between 0.0 and 1.0"

NoError == "undefined"

\* the three checks chained with else-if: only the first violation is reported
validateNetworkSnapshot_elseIf(snapshot) ==
    LET errors ==
            IF Lt(snapshot.latencyMs, Num(0)) THEN <<ErrLatency>>
            ELSE IF Lt(snapshot.packetLossRate, Num(0)) \/ Gt(snapshot.packetLossRate, Num(100))
                 THEN <<ErrPacketLoss>>
                 ELSE IF TypeOf(snapshot.isConnected) # "boolean" THEN <<ErrIsConnected>>
                      ELSE <<>>
    IN  [valid |-> Len(errors) = 0, errors |-> errors]

validateNetworkSnapshot(snapshot) ==
    LET e1 == IF Lt(snapshot.latencyMs, Num(0)) THEN <<ErrLatency>> ELSE <<>>
        e2 == IF Lt(snapshot.packetLossRate, Num(0)) \/ Gt(snapshot.packetLossRate, Num(100))
              THEN <<ErrPacketLoss>> ELSE <<>>
        e3 == IF TypeOf(snapshot.isConnected) # "boolean" THEN <<ErrIsConnected>> ELSE <<>>
        errors == e1 \o e2 \o e3
    IN  [valid |-> Len(errors) = 0, errors |-> errors]

\* the range test written with <= and >=: the endpoints are rejected
validateCompetitiveAdvantage_closed(advantage) ==
    IF Lt(advantage, Num(-100)) \/ Ge(advantage, Num(100))
    THEN [valid |-> FALSE, error |-> ErrAdvantage]
    ELSE [valid |-> TRUE, error |-> NoError]

validateCompetitiveAdvantage(advantage) ==
    IF Lt(advantage, Num(-100)) \/ Gt(advantage, Num(100))
    THEN [valid |-> FALSE, error |-> ErrAdvantage]
    ELSE [valid |-> TRUE, error |-> NoError]

\* the range test copied from validateCompetitiveAdvantage: lower bound -1.0
validateFairnessConfidence_advantageRange(confidence) ==
    IF Lt(confidence, Num(-100)) \/ Gt(confidence, Num(100))
    THEN [valid |-> FALSE, error |-> ErrConfidence]
    ELSE [valid |-> TRUE, error |-> NoError]

validateFairnessConfidence(confidence) ==
    IF Lt(confidence, Num(0)) \/ Gt(confidence, Num(100))
    THEN [valid |-> FALSE, error |-> ErrConfidence]
    ELSE [valid |-> TRUE, error |-> NoError]

(***************************************************************************)
(* app/api/preservation-core/classify: the POST handler                    *)
(***************************************************************************)
ErrQuitAction == "Missing or invalid 'quitAction' field (must be boolean)"

ErrSnapshot == "Invalid networkBeforeDisconnect"

ErrNullBody == "Cannot read properties of null (reading 'quitAction')"

ErrJson == "Unexpected end of JSON input"

\* A parsed request body.  kind is "object" for a JSON object, "null" for the
\* JSON text null and "primitive" for a JSON number, string or boolean, whose
\* properties all read as undefined.
Body(q, net, tslp, thr, ca, fc) ==
    [kind |-> "object", quitAction |-> q, networkBeforeDisconnect |-> net,
     timeSinceLastPacket |-> tslp, timeoutThreshold |-> thr,
     competitiveAdvantage |-> ca, fairnessConfidence |-> fc]

BodyOfKind(k) ==
    [kind |-> k, quitAction |-> Undef, networkBeforeDisconnect |-> NoSnapshot(Undef),
     timeSinceLastPacket |-> Undef, timeoutThreshold |-> Undef,
     competitiveAdvantage |-> Undef, fairnessConfidence |-> Undef]

\* NextResponse.json(json, { status })
Reply(status, json) == [status |-> status, json |-> json]

\* the signals object built without the timeoutThreshold override
BuildSignals_noThreshold(b) ==
    [quitAction |-> b.quitAction,
     networkBeforeDisconnect |-> b.networkBeforeDisconnect,
     timeSinceLastPacket |-> b.timeSinceLastPacket,
     timeoutThreshold |-> Undef,
     competitiveAdvantage |-> b.competitiveAdvantage,
     fairnessConfidence |-> b.fairnessConfidence]

\* the signals object built from the body
BuildSignals(b) ==
    [quitAction |-> b.quitAction,
     networkBeforeDisconnect |-> b.networkBeforeDisconnect,
     timeSinceLastPacket |-> b.timeSinceLastPacket,
     timeoutThreshold |-> b.timeoutThreshold,
     competitiveAdvantage |-> b.competitiveAdvantage,
     fairnessConfidence |-> b.fairnessConfidence]

Handled(reply, calls) == [response |-> reply, classifyCalls |-> calls]

\* the handler without the fairnessConfidence check
POST_noConfidenceCheck(b) ==
    IF b.kind = "null"
    THEN Handled(Reply(500, [error |-> ErrNullBody]), <<>>)
    ELSE IF TypeOf(b.quitAction) # "boolean"
    THEN Handled(Reply(400, [error |-> ErrQuitAction]), <<>>)
    ELSE IF /\ Truthy(b.networkBeforeDisconnect)
            /\ ~validateNetworkSnapshot(b.networkBeforeDisconnect).valid
    THEN Handled(Reply(400, [error |-> ErrSnapshot,
                             details |-> validateNetworkSnapshot(b.networkBeforeDisconnect).errors]),
                 <<>>)
    ELSE IF /\ b.competitiveAdvantage.t # "undefined"
            /\ ~validateCompetitiveAdvantage(b.competitiveAdvantage).valid
    THEN Handled(Reply(400, [error |-> validateCompetitiveAdvantage(b.competitiveAdvantage).error]),
                 <<>>)
    ELSE Handled(Reply(200, classifyDisconnect(BuildSignals(b))), <<BuildSignals(b)>>)

\* the handler with competitiveAdvantage validated before the snapshot
POST_contextFirst(b) ==
    IF b.kind = "null"
    THEN Handled(Reply(500, [error |-> ErrNullBody]), <<>>)
    ELSE IF TypeOf(b.quitAction) # "boolean"
    THEN Handled(Reply(400, [error |-> ErrQuitAction]), <<>>)
    ELSE IF /\ b.competitiveAdvantage.t # "undefined"
            /\ ~validateCompetitiveAdvantage(b.competitiveAdvantage).valid
    THEN Handled(Reply(400, [error |-> validateCompetitiveAdvantage(b.competitiveAdvantage).error]),
                 <<>>)
    ELSE IF /\ Truthy(b.networkBeforeDisconnect)
            /\ ~validateNetworkSnapshot(b.networkBeforeDisconnect).valid
    THEN Handled(Reply(400, [error |-> ErrSnapshot,
                             details |-> validateNetworkSnapshot(b.networkBeforeDisconnect).errors]),
                 <<>>)
    ELSE IF /\ b.fairnessConfidence.t # "undefined"
            /\ ~validateFairnessConfidence(b.fairnessConfidence).valid
    THEN Handled(Reply(400, [error |-> validateFairnessConfidence(b.fairnessConfidence).error]),
                 <<>>)
    ELSE Handled(Reply(200, classifyDisconnect(BuildSignals(b))), <<BuildSignals(b)>>)

\* the handler with a range check on the two timing fields
POST_timingChecked(b) ==
    IF b.kind = "null"
    THEN Handled(Reply(500, [error |-> ErrNullBody]), <<>>)
    ELSE IF TypeOf(b.quitAction) # "boolean"
    THEN Handled(Reply(400, [error |-> ErrQuitAction]), <<>>)
    ELSE IF /\ Truthy(b.networkBeforeDisconnect)
            /\ ~validateNetworkSnapshot(b.networkBeforeDisconnect).valid
    THEN Handled(Reply(400, [error |-> ErrSnapshot,
                             details |-> validateNetworkSnapshot(b.networkBeforeDisconnect).errors]),
                 <<>>)
    ELSE IF /\ b.competitiveAdvantage.t # "undefined"
            /\ ~validateCompetitiveAdvantage(b.competitiveAdvantage).valid
    THEN Handled(Reply(400, [error |-> validateCompetitiveAdvantage(b.competitiveAdvantage).error]),
                 <<>>)
    ELSE IF /\ b.fairnessConfidence.t # "undefined"
            /\ ~validateFairnessConfidence(b.fairnessConfidence).valid
    THEN Handled(Reply(400, [error |-> validateFairnessConfidence(b.fairnessConfidence).error]),
                 <<>>)
    ELSE IF \/ b.timeSinceLastPacket.t = "number" /\ Lt(b.timeSinceLastPacket, Num(0))
            \/ b.timeoutThreshold.t = "number" /\ ~Gt(b.timeoutThreshold, Num(0))
    THEN Handled(Reply(400, [error |-> "timing out of range"]), <<>>)
    ELSE Handled(Reply(200, classifyDisconnect(BuildSignals(b))), <<BuildSignals(b)>>)

\* The handler from the point where req.json() has resolved to b: the checks in
\* source order, each returning at its first failure, then the classification.
\* Reading body.quitAction of null throws a TypeError, which the catch block
\* answers with status 500.
POST(b) ==
    IF b.kind = "null"
    THEN Handled(Reply(500, [error |-> ErrNullBody]), <<>>)
    ELSE IF TypeOf(b.quitAction) # "boolean"
    THEN Handled(Reply(400, [error |-> ErrQuitAction]), <<>>)
    ELSE IF /\ Truthy(b.networkBeforeDisconnect)
            /\ ~validateNetworkSnapshot(b.networkBeforeDisconnect).valid
    THEN Handled(Reply(400, [error |-> ErrSnapshot,
                             details |-> validateNetworkSnapshot(b.networkBeforeDisconnect).errors]),
                 <<>>)
    ELSE IF /\ b.competitiveAdvantage.t # "undefined"
            /\ ~validateCompetitiveAdvantage(b.competitiveAdvantage).valid
    THEN Handled(Reply(400, [error |-> validateCompetitiveAdvantage(b.competitiveAdvantage).error]),
                 <<>>)
    ELSE IF /\ b.fairnessConfidence.t # "undefined"
            /\ ~validateFairnessConfidence(b.fairnessConfidence).valid
    THEN Handled(Reply(400, [error |-> validateFairnessConfidence(b.fairnessConfidence).error]),
                 <<>>)
    ELSE Handled(Reply(200, classifyDisconnect(BuildSignals(b))), <<BuildSignals(b)>>)

(***************************************************************************)
(* Input domains                                                           *)
(***************************************************************************)
\* largest ratio-valued argument, in hundredths, handed to a validator
MaxRatio == 102

Ratios == {Num(k) : k \in -MaxRatio..MaxRatio}

\* well-typed DisconnectSignals handed to classifyDisconnect by in-process callers
EngineSnapshots ==
    {NoSnapshot(Undef)} \cup
    {Snapshot(Num(lat), Num(plr), Bool(conn)) :
        lat \in {0, 799 * 100, 800 * 100}, plr \in {0, 24, 25, 100}, conn \in BOOLEAN}

EngineSinceLastPacket == {Undef, Num(0), Num(4999 * 100), Num(5000 * 100)}

EngineThresholds == {Undef, Num(0), Num(4999 * 100)}

EngineAdvantages == {Undef} \cup {Num(k) : k \in {-100, -31, -30, 0, 30, 31, 100}}

EngineConfidences == {Undef} \cup {Num(k) : k \in {0, 29, 30, 80, 81, 100}}

EngineSignals ==
    [quitAction : {Bool(TRUE), Bool(FALSE)},
     networkBeforeDisconnect : EngineSnapshots,
     timeSinceLastPacket : EngineSinceLastPacket,
     timeoutThreshold : EngineThresholds,
     competitiveAdvantage : EngineAdvantages,
     fairnessConfidence : EngineConfidences]

\* snapshots handed to validateNetworkSnapshot
ValidatorSnapshots ==
    {Snapshot(lat, plr, conn) :
        lat \in {Undef, Str(0), Num(-1), Num(0), Num(800 * 100)},
        plr \in {Undef, Str(0)} \cup {Num(k) : k \in -2..MaxRatio},
        conn \in {Undef, Null, Bool(TRUE), Bool(FALSE), Num(100), Str(0)}}

ValidatorNumbers == Ratios \cup {Undef, Null, Str(0), Str(500), Bool(TRUE)}

\* request bodies as req.json() can resolve them
ApiSnapshots ==
    {NoSnapshot(v) : v \in {Undef, Null, Bool(FALSE), Bool(TRUE), Num(0)}} \cup
    {Snapshot(lat, plr, conn) :
        lat \in {Undef, Str(0), Num(-1), Num(0), Num(800 * 100)},
        plr \in {Undef, Num(-1), Num(0), Num(25), Num(100), Num(101)},
        conn \in {Undef, Bool(TRUE), Bool(FALSE), Str(0)}}

ApiTimings ==
    {<<Undef, Undef>>, <<Num(0), Undef>>, <<Num(0), Num(0)>>,
     <<Num(-100), Undef>>, <<Num(5000 * 100), Undef>>, <<Num(-100), Num(-200)>>}

ApiBodies ==
    {BodyOfKind("null"), BodyOfKind("primitive")} \cup
    {Body(q, net, tm[1], tm[2], ca, fc) :
        q \in {Undef, Bool(TRUE), Bool(FALSE), Str(0)},
        net \in ApiSnapshots,
        tm \in ApiTimings,
        ca \in {Undef, Null, Str(0), Num(-101), Num(-100), Num(100), Num(101)},
        fc \in {Undef, Num(-1), Num(0), Num(100), Num(101)}}

\* number of requests the server handles at the same time
NumRequests == 2

Requests == 1..NumRequests

\* request bodies sent by concurrent callers: one for each way the handler returns
ConcBodies ==
    {BodyOfKind("null"),
     BodyOfKind("primitive"),
     Body(Undef, NoSnapshot(Undef), Undef, Undef, Undef, Undef),
     Body(Bool(TRUE), NoSnapshot(Undef), Undef, Undef, Undef, Undef),
     Body(Bool(FALSE), NoSnapshot(Undef), Undef, Undef, Undef, Undef),
     Body(Bool(FALSE), Snapshot(Num(1200 * 100), Num(40), Bool(FALSE)), Undef, Undef, Num(70), Undef),
     Body(Bool(FALSE), Snapshot(Num(50 * 100), Num(5), Bool(TRUE)), Num(6000 * 100), Undef, Undef, Undef),
     Body(Bool(FALSE), Snapshot(Num(0), Num(150), Bool(TRUE)), Undef, Undef, Undef, Undef),
     Body(Bool(FALSE), NoSnapshot(Undef), Undef, Undef, Num(101), Undef),
     Body(Bool(TRUE), NoSnapshot(Undef), Undef, Undef, Undef, Num(-1)),
     Body(Bool(FALSE), NoSnapshot(Undef), Num(0), Num(0), Undef, Undef),
     Body(Bool(TRUE), Snapshot(Num(900 * 100), Num(30), Bool(FALSE)), Undef, Undef, Num(-50), Num(90))}

(***************************************************************************)
(* State machine                                                           *)
(***************************************************************************)
(***************************************************************************)
(* components/preservation-core-page.tsx: the sandbox page.  page holds    *)
(* the component's state and refs, clock the wall clock in seconds (the    *)
(* match loop ticks once a second; Date.now() is clock * 1000 ms), and     *)
(* pressed the button the user pressed in the running match.  The page is  *)
(* taken to stay the active view.  Scores and matchId, which take no part  *)
(* in the classification, are left out.                                    *)
(***************************************************************************)
MATCH_DURATION_SECONDS == 40

\* the last second the wall clock reaches
MaxClock == 42

DateNow(c) == Num(c * 1000 * 100)

\* useState initial value of network, also restored by resetMatch
InitialNetwork == Snapshot(Num(40 * 100), Num(1), Bool(TRUE))

\* the snapshot handleSimulateNetworkDrop injects
degraded == Snapshot(Num(1200 * 100), Num(40), Bool(FALSE))

\* The jittered snapshots: latency is clamped to [20, 120] ms and loss to
\* [0, 0.05], isConnected is true.  The end points stand for the range; the
\* code moves by at most 5 ms and 0.005 a tick.
JitterNetworks ==
    {Snapshot(Num(lat * 100), Num(loss), Bool(TRUE)) : lat \in {20, 120}, loss \in {0, 5}}

\* the state after the first render
InitialPage ==
    [status |-> "idle",
     remaining |-> MATCH_DURATION_SECONDS,
     quitPressed |-> FALSE,
     network |-> InitialNetwork,
     networkBeforeDisconnect |-> NoSnapshot(Undef),
     disconnectType |-> "none",
     lossApplied |-> FALSE,
     classificationResult |-> Null,
     lastPacketTime |-> Null,
     report |-> Null,
     networkDropInjectedRef |-> FALSE,
     statusEffectPending |-> FALSE]

resetMatch(p) ==
    [p EXCEPT !.status = "idle",
              !.remaining = MATCH_DURATION_SECONDS,
              !.quitPressed = FALSE,
              !.disconnectType = "none",
              !.lossApplied = FALSE,
              !.classificationResult = Null,
              !.lastPacketTime = Null,
              !.network = InitialNetwork,
              !.networkBeforeDisconnect = NoSnapshot(Undef),
              !.networkDropInjectedRef = FALSE,
              !.report = Null]

\* the page passes three signals; the other three are absent
performClassification(p, c) ==
    classifyDisconnect(
        [quitAction |-> Bool(p.quitPressed),
         networkBeforeDisconnect |-> p.networkBeforeDisconnect,
         timeSinceLastPacket |-> IF Truthy(p.lastPacketTime)
                                 THEN Num(DateNow(c).n - p.lastPacketTime.n)
                                 ELSE Undef,
         timeoutThreshold |-> Undef,
         competitiveAdvantage |-> Undef,
         fairnessConfidence |-> Undef])

MatchReport(result, finalStatus, snapshot) ==
    [disconnectDetected |-> result.type # "none",
     disconnectClassification |-> result.type,
     lossApplied |-> result.lossApplied,
     preservationCoreStatus |-> "active",
     status |-> finalStatus,
     networkBeforeDisconnect |-> snapshot]

finalizeMatch(p, finalStatus, c) ==
    LET result == performClassification(p, c)
    IN  [p EXCEPT !.classificationResult = result,
                  !.disconnectType = result.type,
                  !.lossApplied = result.lossApplied,
                  !.report = MatchReport(result, finalStatus, p.networkBeforeDisconnect)]

NoCall == [fn |-> "none"]

NoBody == BodyOfKind("none")

NoResponse == Reply(0, [error |-> NoError])

\* the handler's per-invocation state: its position and its local variables
Invocation(p, b, reply, calls) == [pc |-> p, body |-> b, response |-> reply, classifyCalls |-> calls]

NoRequest == Invocation("idle", NoBody, NoResponse, <<>>)

Init ==
    /\ call = NoCall
    /\ pc = "idle"
    /\ body = NoBody
    /\ response = NoResponse
    /\ classifyCalls = <<>>
    /\ inflight = [r \in Requests |-> NoRequest]
    /\ page = InitialPage
    /\ clock = 1
    /\ pressed = "none"

\* an in-process caller (the test suite, the sandbox page) classifies one bundle
CallClassifyDisconnect(signals) ==
    /\ call.fn = "none"
    /\ call' = [fn |-> "classifyDisconnect", arg |-> signals, ret |-> classifyDisconnect(signals)]
    /\ UNCHANGED <<pc, body, response, classifyCalls, inflight, page, clock, pressed>>

CallValidateNetworkSnapshot(snapshot) ==
    /\ call.fn = "none"
    /\ call' = [fn |-> "validateNetworkSnapshot", arg |-> snapshot,
                ret |-> validateNetworkSnapshot(snapshot)]
    /\ UNCHANGED <<pc, body, response, classifyCalls, inflight, page, clock, pressed>>

CallValidateCompetitiveAdvantage(advantage) ==
    /\ call.fn = "none"
    /\ call' = [fn |-> "validateCompetitiveAdvantage", arg |-> advantage,
                ret |-> validateCompetitiveAdvantage(advantage)]
    /\ UNCHANGED <<pc, body, response, classifyCalls, inflight, page, clock, pressed>>

CallValidateFairnessConfidence(confidence) ==
    /\ call.fn = "none"
    /\ call' = [fn |-> "validateFairnessConfidence", arg |-> confidence,
                ret |-> validateFairnessConfidence(confidence)]
    /\ UNCHANGED <<pc, body, response, classifyCalls, inflight, page, clock, pressed>>

\* the caller has consumed the returned value
Return ==
    /\ call.fn # "none"
    /\ call' = NoCall
    /\ UNCHANGED <<pc, body, response, classifyCalls, inflight, page, clock, pressed>>

\* the guard of the call actions, tested once before the argument is drawn
Ready == call.fn = "none"

Next ==
    \/ Return
    \/ Ready /\ \E signals \in EngineSignals : CallClassifyDisconnect(signals)
    \/ Ready /\ \E snapshot \in ValidatorSnapshots : CallValidateNetworkSnapshot(snapshot)
    \/ Ready /\ \E advantage \in ValidatorNumbers : CallValidateCompetitiveAdvantage(advantage)
    \/ Ready /\ \E confidence \in ValidatorNumbers : CallValidateFairnessConfidence(confidence)

Spec == Init /\ [][Next]_vars

\* a request arrives: the handler starts and suspends at await req.json()
PostRequest ==
    /\ pc = "idle"
    /\ pc' = "json"
    /\ UNCHANGED <<call, body, response, classifyCalls, inflight, page, clock, pressed>>

\* req.json() resolves to b and the handler runs to its return
JsonResolves(b) ==
    /\ pc = "json"
    /\ pc' = "responded"
    /\ body' = b
    /\ response' = POST(b).response
    /\ classifyCalls' = POST(b).classifyCalls
    /\ UNCHANGED <<call, inflight, page, clock, pressed>>

\* req.json() rejects (the body is not JSON): the catch block answers 500
JsonRejects ==
    /\ pc = "json"
    /\ pc' = "responded"
    /\ body' = BodyOfKind("unparsed")
    /\ response' = Reply(500, [error |-> ErrJson])
    /\ classifyCalls' = <<>>
    /\ UNCHANGED <<call, inflight, page, clock, pressed>>

\* the response has been sent; the next request starts from a clean slate
Respond ==
    /\ pc = "responded"
    /\ pc' = "idle"
    /\ body' = NoBody
    /\ response' = NoResponse
    /\ classifyCalls' = <<>>
    /\ UNCHANGED <<call, inflight, page, clock, pressed>>

NextApi ==
    \/ PostRequest
    \/ pc = "json" /\ \E b \in ApiBodies : JsonResolves(b)
    \/ JsonRejects
    \/ Respond

SpecApi == Init /\ [][NextApi]_vars

(***************************************************************************)
(* Concurrent invocations of the POST handler.  Each invocation owns its   *)
(* locals (body, validation, signals, result); the module keeps no         *)
(* variable between invocations.  An invocation suspends only at           *)
(* await req.json() and runs from there to its return without yielding.    *)
(***************************************************************************)
ConcPostRequest(r) ==
    /\ inflight[r].pc = "idle"
    /\ inflight' = [inflight EXCEPT ![r] = Invocation("json", NoBody, NoResponse, <<>>)]
    /\ UNCHANGED <<call, pc, body, response, classifyCalls, page, clock, pressed>>

\* the result kept in a module-level variable and reused by a later invocation
ConcJsonResolves_cached(r, b) ==
    /\ inflight[r].pc = "json"
    /\ inflight' =
          [inflight EXCEPT ![r] =
              IF \E o \in Requests : inflight[o].pc = "responded"
              THEN LET o == CHOOSE o \in Requests : inflight[o].pc = "responded"
                   IN  Invocation("responded", b, inflight[o].response, inflight[o].classifyCalls)
              ELSE Invocation("responded", b, POST(b).response, POST(b).classifyCalls)]
    /\ UNCHANGED <<call, pc, body, response, classifyCalls, page, clock, pressed>>

ConcJsonResolves(r, b) ==
    /\ inflight[r].pc = "json"
    /\ inflight' =
          [inflight EXCEPT ![r] = Invocation("responded", b, POST(b).response, POST(b).classifyCalls)]
    /\ UNCHANGED <<call, pc, body, response, classifyCalls, page, clock, pressed>>

ConcJsonRejects(r) ==
    /\ inflight[r].pc = "json"
    /\ inflight' =
          [inflight EXCEPT ![r] =
              Invocation("responded", BodyOfKind("unparsed"), Reply(500, [error |-> ErrJson]), <<>>)]
    /\ UNCHANGED <<call, pc, body, response, classifyCalls, page, clock, pressed>>

ConcRespond(r) ==
    /\ inflight[r].pc = "responded"
    /\ inflight' = [inflight EXCEPT ![r] = NoRequest]
    /\ UNCHANGED <<call, pc, body, response, classifyCalls, page, clock, pressed>>

NextConc ==
    \/ \E r \in Requests : ConcPostRequest(r)
    \/ \E r \in Requests, b \in ConcBodies : ConcJsonResolves(r, b)
    \/ \E r \in Requests : ConcJsonRejects(r)
    \/ \E r \in Requests : ConcRespond(r)

SpecConc == Init /\ [][NextConc]_vars

(***************************************************************************)
(* components/preservation-core-page.tsx: the handlers, the match loop and  *)
(* the effect on the status                                                *)
(***************************************************************************)
\* the variables of the engine and handler specifications
serverVars == <<call, pc, body, response, classifyCalls, inflight>>

\* Start Match; the button is disabled while a match is running
startMatch ==
    /\ ~page.statusEffectPending
    /\ page.status # "running"
    /\ page' = [resetMatch(page) EXCEPT !.status = "running",
                                       !.lastPacketTime = DateNow(clock),
                                       !.statusEffectPending = TRUE]
    /\ pressed' = "none"
    /\ UNCHANGED <<clock, serverVars>>

\* Quit that leaves quitPressed unset
handleQuitIntentional_noFlag ==
    /\ ~page.statusEffectPending
    /\ IF page.status # "running"
       THEN UNCHANGED <<page, pressed>>
       ELSE /\ page' = [page EXCEPT
                           !.networkBeforeDisconnect =
                               IF ~Truthy(page.networkBeforeDisconnect) THEN page.network ELSE @,
                           !.status = "disconnected",
                           !.statusEffectPending = TRUE]
            /\ pressed' = "quit"
    /\ UNCHANGED <<clock, serverVars>>

\* Quit without the test of the status
handleQuitIntentional_unguarded ==
    /\ ~page.statusEffectPending
    /\ page' = [page EXCEPT
                   !.quitPressed = TRUE,
                   !.networkBeforeDisconnect =
                       IF ~Truthy(page.networkBeforeDisconnect) THEN page.network ELSE @,
                   !.status = "disconnected",
                   !.statusEffectPending = page.status # "disconnected"]
    /\ pressed' = "quit"
    /\ UNCHANGED <<clock, serverVars>>

\* Quit (Intentional)
handleQuitIntentional ==
    /\ ~page.statusEffectPending
    /\ IF page.status # "running"
       THEN UNCHANGED <<page, pressed>>
       ELSE /\ page' = [page EXCEPT
                           !.quitPressed = TRUE,
                           !.networkBeforeDisconnect =
                               IF ~Truthy(page.networkBeforeDisconnect) THEN page.network ELSE @,
                           !.status = "disconnected",
                           !.statusEffectPending = TRUE]
            /\ pressed' = "quit"
    /\ UNCHANGED <<clock, serverVars>>

\* the drop capturing the live network state of the current render
handleSimulateNetworkDrop_liveSnapshot ==
    /\ ~page.statusEffectPending
    /\ IF page.status # "running"
       THEN UNCHANGED <<page, pressed>>
       ELSE /\ page' = [page EXCEPT
                           !.networkDropInjectedRef = TRUE,
                           !.network = degraded,
                           !.networkBeforeDisconnect =
                               IF ~Truthy(page.networkBeforeDisconnect) THEN page.network ELSE @,
                           !.status = "disconnected",
                           !.statusEffectPending = TRUE]
            /\ pressed' = "drop"
    /\ UNCHANGED <<clock, serverVars>>

\* Simulate Network Drop
handleSimulateNetworkDrop ==
    /\ ~page.statusEffectPending
    /\ IF page.status # "running"
       THEN UNCHANGED <<page, pressed>>
       ELSE /\ page' = [page EXCEPT
                           !.networkDropInjectedRef = TRUE,
                           !.network = degraded,
                           !.networkBeforeDisconnect =
                               IF ~Truthy(page.networkBeforeDisconnect) THEN degraded ELSE @,
                           !.status = "disconnected",
                           !.statusEffectPending = TRUE]
            /\ pressed' = "drop"
    /\ UNCHANGED <<clock, serverVars>>

\* One run of the setInterval callback, a second after the previous one:
\* remaining counts down and the match completes at 0; unless a drop was
\* injected the network jitters to next, and the packet of this tick is
\* received (Math.random() > nextLoss) or not.
Tick(next, received) ==
    /\ ~page.statusEffectPending
    /\ page.status = "running"
    /\ clock < MaxClock
    /\ clock' = clock + 1
    /\ page' = [page EXCEPT
                   !.remaining = IF @ - 1 <= 0 THEN 0 ELSE @ - 1,
                   !.status = IF page.remaining - 1 <= 0 THEN "completed" ELSE @,
                   !.statusEffectPending = page.remaining - 1 <= 0,
                   !.network = IF page.networkDropInjectedRef THEN @ ELSE next,
                   !.lastPacketTime =
                       IF ~page.networkDropInjectedRef /\ received THEN DateNow(clock + 1) ELSE @]
    /\ UNCHANGED <<pressed, serverVars>>

\* The effect on [status], run after the render in which status changed and
\* before the next event: a terminal status finalizes the match.
TerminalStatusEffect ==
    /\ page.statusEffectPending
    /\ page' = [(IF page.status \in {"completed", "disconnected"}
                 THEN finalizeMatch(page, page.status, clock)
                 ELSE page) EXCEPT !.statusEffectPending = FALSE]
    /\ UNCHANGED <<clock, pressed, serverVars>>

NextPage ==
    \/ startMatch
    \/ handleQuitIntentional
    \/ handleSimulateNetworkDrop
    \/ \E next \in JitterNetworks, received \in BOOLEAN : Tick(next, received)
    \/ TerminalStatusEffect

SpecPage == Init /\ [][NextPage]_vars

(***************************************************************************)
(* Properties of classifyDisconnect (specification Spec)                   *)
(***************************************************************************)
Classified == call.fn = "classifyDisconnect"

AnyNetworkFlag(flags) ==
    flags.timeoutDetected \/ flags.highPacketLoss \/ flags.highLatency \/ flags.hardDisconnect

\* C1: the result of classifyDisconnect has type intentional_disconnect if and
\* only if quitAction is true, and whenever quitAction is true lossApplied is
\* true, whatever the snapshot, the timing and the context values are.
C1_QuitIffIntentional ==
    Classified =>
        /\ (call.ret.type = "intentional_disconnect") <=> (call.arg.quitAction = Bool(TRUE))
        /\ (call.arg.quitAction = Bool(TRUE)) => (call.ret.lossApplied = TRUE)

\* a quit classified while every network flag is raised and the player is ahead
C1_Witness ==
    /\ Classified
    /\ call.arg.quitAction = Bool(TRUE)
    /\ call.ret.signals.timeoutDetected
    /\ call.ret.signals.highPacketLoss
    /\ call.ret.signals.highLatency
    /\ call.ret.signals.hardDisconnect
    /\ call.arg.competitiveAdvantage = Num(100)
    /\ call.ret.type = "intentional_disconnect"
    /\ call.ret.lossApplied

C3_NoSignalIsNone ==
    (Classified /\ call.arg.quitAction = Bool(FALSE) /\ ~AnyNetworkFlag(call.ret.signals)) =>
        /\ call.ret.type = "none"
        /\ call.ret.lossApplied = FALSE
        /\ call.ret.signals.quitDetected = Bool(FALSE)
        /\ call.ret.signals.timeoutDetected = FALSE
        /\ call.ret.signals.highPacketLoss = FALSE
        /\ call.ret.signals.highLatency = FALSE
        /\ call.ret.signals.hardDisconnect = FALSE

\* a connected snapshot just below both thresholds, a last packet just inside
\* the timeout, and both context values supplied
C3_Witness ==
    /\ Classified
    /\ call.arg.quitAction = Bool(FALSE)
    /\ call.arg.networkBeforeDisconnect = Snapshot(Num(799 * 100), Num(24), Bool(TRUE))
    /\ call.arg.timeSinceLastPacket = Num(4999 * 100)
    /\ call.arg.timeoutThreshold = Undef
    /\ call.arg.competitiveAdvantage = Num(-100)
    /\ call.arg.fairnessConfidence = Num(100)
    /\ call.ret.type = "none"

\* C4: every result of classifyDisconnect is one of the three pairs
\* (intentional_disconnect, true), (unintentional_disconnect, false),
\* (none, false).
C4_ThreeOutcomes ==
    Classified =>
        <<call.ret.type, call.ret.lossApplied>> \in
            {<<"intentional_disconnect", TRUE>>,
             <<"unintentional_disconnect", FALSE>>,
             <<"none", FALSE>>}

\* a quit by a player who was ahead, with no network problem at all
C4_Witness ==
    /\ Classified
    /\ call.arg.quitAction = Bool(TRUE)
    /\ call.arg.competitiveAdvantage = Num(31)
    /\ ~AnyNetworkFlag(call.ret.signals)
    /\ call.ret.type = "intentional_disconnect"
    /\ call.ret.lossApplied

(***************************************************************************)
(* Properties of the validators (specification Spec)                       *)
(***************************************************************************)
Range(seq) == {seq[i] : i \in DOMAIN seq}

Count(b) == IF b THEN 1 ELSE 0

\* C9: for a snapshot with numeric latencyMs and packetLossRate,
\* validateNetworkSnapshot returns valid iff latencyMs >= 0, packetLossRate
\* is within [0, 1] and isConnected is a boolean; errors holds exactly one
\* entry per violated constraint, and valid iff errors is empty.
C9_SnapshotValidation ==
    (/\ call.fn = "validateNetworkSnapshot"
     /\ call.arg.latencyMs.t = "number"
     /\ call.arg.packetLossRate.t = "number") =>
        LET badLatency == call.arg.latencyMs.n < 0
            badLoss == call.arg.packetLossRate.n < 0 \/ call.arg.packetLossRate.n > 100
            badConnected == call.arg.isConnected.t # "boolean"
            errors == call.ret.errors
        IN  /\ call.ret.valid <=> (~badLatency /\ ~badLoss /\ ~badConnected)
            /\ call.ret.valid <=> (errors = <<>>)
            /\ Len(errors) = Count(badLatency) + Count(badLoss) + Count(badConnected)
            /\ (ErrLatency \in Range(errors)) <=> badLatency
            /\ (ErrPacketLoss \in Range(errors)) <=> badLoss
            /\ (ErrIsConnected \in Range(errors)) <=> badConnected

\* a snapshot violating all three constraints, answered with three errors
C9_Witness ==
    /\ call.fn = "validateNetworkSnapshot"
    /\ call.arg.latencyMs = Num(-1)
    /\ call.arg.packetLossRate = Num(101)
    /\ call.arg.isConnected = Str(0)
    /\ ~call.ret.valid
    /\ Len(call.ret.errors) = 3

\* C10: validateCompetitiveAdvantage returns invalid, with its error message,
\* iff the number is below -1.0 or above 1.0; -1.0, 1.0 and everything between
\* are valid and carry no error.
C10_AdvantageValidation ==
    (call.fn = "validateCompetitiveAdvantage" /\ call.arg.t = "number") =>
        /\ (~call.ret.valid) <=> (call.arg.n < -100 \/ call.arg.n > 100)
        /\ call.ret.valid => call.ret.error = NoError
        /\ (~call.ret.valid) => call.ret.error = ErrAdvantage

\* the endpoint 1.0 validated and accepted
C10_Witness ==
    /\ call.fn = "validateCompetitiveAdvantage"
    /\ call.arg = Num(100)
    /\ call.ret.valid
    /\ call.ret.error = NoError

(***************************************************************************)
(* Properties of the POST handler (specification SpecApi)                  *)
(***************************************************************************)
Responded == pc = "responded"

\* the optional fields as the handler tests their presence
SnapshotFails(b) ==
    Truthy(b.networkBeforeDisconnect) /\ ~validateNetworkSnapshot(b.networkBeforeDisconnect).valid

AdvantageFails(b) ==
    b.competitiveAdvantage.t # "undefined" /\ ~validateCompetitiveAdvantage(b.competitiveAdvantage).valid

ConfidenceFails(b) ==
    b.fairnessConfidence.t # "undefined" /\ ~validateFairnessConfidence(b.fairnessConfidence).valid

\* the error texts that name a constraint the body violates
ViolatedConstraints(b) ==
    (IF TypeOf(b.quitAction) # "boolean" THEN {ErrQuitAction} ELSE {}) \cup
    (IF SnapshotFails(b) THEN {ErrSnapshot} ELSE {}) \cup
    (IF AdvantageFails(b) THEN {ErrAdvantage} ELSE {}) \cup
    (IF ConfidenceFails(b) THEN {ErrConfidence} ELSE {})

\* C6: when a supplied networkBeforeDisconnect, competitiveAdvantage or
\* fairnessConfidence fails its validator the handler answers 400 with a
\* violated constraint and classifyDisconnect is not invoked for the request;
\* classifyDisconnect is invoked, once, only when every supplied optional
\* field passed its validator.
C6_InvalidInputNotClassified ==
    (Responded /\ body.kind = "object") =>
        /\ (SnapshotFails(body) \/ AdvantageFails(body) \/ ConfidenceFails(body)) =>
              /\ response.status = 400
              /\ response.json.error \in ViolatedConstraints(body)
              /\ (response.json.error = ErrSnapshot) =>
                    response.json.details = validateNetworkSnapshot(body.networkBeforeDisconnect).errors
              /\ classifyCalls = <<>>
        /\ (classifyCalls # <<>>) =>
              /\ Len(classifyCalls) = 1
              /\ ~SnapshotFails(body)
              /\ ~AdvantageFails(body)
              /\ ~ConfidenceFails(body)

\* a request whose only fault is a fairnessConfidence above 1.0
C6_Witness ==
    /\ Responded
    /\ body.kind = "object"
    /\ body.quitAction = Bool(FALSE)
    /\ ~SnapshotFails(body)
    /\ ~AdvantageFails(body)
    /\ body.fairnessConfidence = Num(101)
    /\ response.status = 400
    /\ response.json.error = ErrConfidence
    /\ classifyCalls = <<>>

\* C7: every parsed body that does not carry a boolean quitAction (missing,
\* of another type, or the body is not an object) is answered 400 and is not
\* classified.
C7_MissingQuitActionIs400 ==
    (/\ Responded
     /\ body.kind \in {"object", "null", "primitive"}
     /\ ~(body.kind = "object" /\ TypeOf(body.quitAction) = "boolean")) =>
        /\ response.status = 400
        /\ classifyCalls = <<>>

\* C8: a snapshot reaches classifyDisconnect through the handler only if
\* latencyMs is a number >= 0, packetLossRate a number within [0, 1] and
\* isConnected a boolean.
C8_OnlyWellFormedSnapshotsClassified ==
    (/\ Responded
     /\ classifyCalls # <<>>
     /\ Truthy(classifyCalls[1].networkBeforeDisconnect)) =>
        LET snap == classifyCalls[1].networkBeforeDisconnect
        IN  /\ snap.latencyMs.t = "number" /\ snap.latencyMs.n >= 0
            /\ snap.packetLossRate.t = "number"
            /\ snap.packetLossRate.n >= 0 /\ snap.packetLossRate.n <= 100
            /\ snap.isConnected.t = "boolean"

(***************************************************************************)
(* Properties of validateFairnessConfidence and of the signal flags        *)
(* (specification Spec)                                                    *)
(***************************************************************************)
\* C11: validateFairnessConfidence returns invalid, with its error message,
\* iff the number is below 0.0 or above 1.0; 0.0, 1.0 and everything between
\* are valid and carry no error.
C11_ConfidenceValidation ==
    (call.fn = "validateFairnessConfidence" /\ call.arg.t = "number") =>
        /\ (~call.ret.valid) <=> (call.arg.n < 0 \/ call.arg.n > 100)
        /\ call.ret.valid => call.ret.error = NoError
        /\ (~call.ret.valid) => call.ret.error = ErrConfidence

\* the endpoint 0.0 validated and accepted
C11_Witness ==
    /\ call.fn = "validateFairnessConfidence"
    /\ call.arg = Num(0)
    /\ call.ret.valid
    /\ call.ret.error = NoError

\* a snapshot object was supplied to the classified call
SnapshotPresent == call.arg.networkBeforeDisconnect.t = "object"

\* C12: signals.highPacketLoss is true iff a snapshot is present and its
\* packetLossRate is at least 0.25; exactly 0.25 sets the flag.
C12_HighPacketLossThreshold ==
    Classified =>
        (call.ret.signals.highPacketLoss <=>
            (SnapshotPresent /\ call.arg.networkBeforeDisconnect.packetLossRate.n >= 25))

\* packet loss of exactly 0.25 on an otherwise healthy, connected snapshot
C12_Witness ==
    /\ Classified
    /\ call.arg.networkBeforeDisconnect = Snapshot(Num(0), Num(25), Bool(TRUE))
    /\ call.ret.signals.highPacketLoss
    /\ ~call.ret.signals.highLatency
    /\ ~call.ret.signals.hardDisconnect

\* C13: signals.highLatency is true iff a snapshot is present and its
\* latencyMs is at least 800; exactly 800 sets the flag and 799 does not.
C13_HighLatencyThreshold ==
    Classified =>
        (call.ret.signals.highLatency <=>
            (SnapshotPresent /\ call.arg.networkBeforeDisconnect.latencyMs.n >= 800 * 100))

\* latency of exactly 800 ms on an otherwise healthy, connected snapshot
C13_Witness ==
    /\ Classified
    /\ call.arg.networkBeforeDisconnect = Snapshot(Num(800 * 100), Num(0), Bool(TRUE))
    /\ call.ret.signals.highLatency
    /\ ~call.ret.signals.highPacketLoss
    /\ ~call.ret.signals.hardDisconnect

\* C14: signals.hardDisconnect is true iff a snapshot is present and its
\* isConnected is false; without a snapshot highPacketLoss, highLatency and
\* hardDisconnect are all false, so only a timeout can then produce
\* unintentional_disconnect.
C14_HardDisconnectNeedsSnapshot ==
    Classified =>
        /\ call.ret.signals.hardDisconnect <=>
              (SnapshotPresent /\ call.arg.networkBeforeDisconnect.isConnected = Bool(FALSE))
        /\ ~SnapshotPresent =>
              /\ ~call.ret.signals.highPacketLoss
              /\ ~call.ret.signals.highLatency
              /\ ~call.ret.signals.hardDisconnect
              /\ (call.ret.type = "unintentional_disconnect") => call.ret.signals.timeoutDetected

\* no snapshot, a last packet 5000 ms ago: the timeout alone gives the verdict
C14_Witness ==
    /\ Classified
    /\ ~SnapshotPresent
    /\ call.arg.quitAction = Bool(FALSE)
    /\ call.arg.timeSinceLastPacket = Num(5000 * 100)
    /\ call.arg.timeoutThreshold = Undef
    /\ call.ret.signals.timeoutDetected
    /\ ~call.ret.signals.hardDisconnect
    /\ call.ret.type = "unintentional_disconnect"

C17_ContextUsedFlags ==
    Classified =>
        /\ call.ret.signals.competitiveAdvantageUsed <=> (call.arg.competitiveAdvantage # Undef)
        /\ call.ret.signals.fairnessConfidenceUsed <=> (call.arg.fairnessConfidence # Undef)

\* a quit with competitiveAdvantage 0.0 supplied and fairnessConfidence absent
C17_Witness ==
    /\ Classified
    /\ call.ret.type = "intentional_disconnect"
    /\ call.arg.competitiveAdvantage = Num(0)
    /\ call.arg.fairnessConfidence = Undef
    /\ call.ret.signals.competitiveAdvantageUsed
    /\ ~call.ret.signals.fairnessConfidenceUsed

\* C18: signals.quitDetected equals the input quitAction.
C18_QuitDetectedMirrorsInput ==
    Classified => call.ret.signals.quitDetected = call.arg.quitAction

\* a quit reported back as quitDetected = true
C18_Witness ==
    /\ Classified
    /\ call.arg.quitAction = Bool(TRUE)
    /\ call.ret.signals.quitDetected = Bool(TRUE)

(***************************************************************************)
(* Properties of concurrent requests (specification SpecConc)              *)
(***************************************************************************)
\* C19: with requests interleaving at await req.json(), the response of every
\* request, and the classification run for it, are those the handler gives
\* that request's body when the request runs alone.
C19_ConcurrentRequestsIndependent ==
    \A r \in Requests :
        (inflight[r].pc = "responded" /\ inflight[r].body.kind # "unparsed") =>
            /\ inflight[r].response = POST(inflight[r].body).response
            /\ inflight[r].classifyCalls = POST(inflight[r].body).classifyCalls

\* two requests answered before either response is sent: a 200 for a network
\* failure while ahead and a 400 for a competitiveAdvantage of 1.01
C19_Witness ==
    /\ inflight[1].pc = "responded"
    /\ inflight[2].pc = "responded"
    /\ inflight[1].body.competitiveAdvantage = Num(70)
    /\ inflight[1].response.status = 200
    /\ inflight[1].response.json.type = "unintentional_disconnect"
    /\ inflight[2].body.competitiveAdvantage = Num(101)
    /\ inflight[2].response.status = 400

(***************************************************************************)
(* The handler against the engine (specification SpecApi)                  *)
(***************************************************************************)
\* C20: every request that passes validation is answered 200 with exactly
\* the result of classifyDisconnect applied to the six request fields
\* unchanged, and that bundle is the one classified.
C20_ApiReturnsEngineResult ==
    (/\ Responded
     /\ body.kind = "object"
     /\ TypeOf(body.quitAction) = "boolean"
     /\ ~SnapshotFails(body)
     /\ ~AdvantageFails(body)
     /\ ~ConfidenceFails(body)) =>
        LET six == [quitAction |-> body.quitAction,
                    networkBeforeDisconnect |-> body.networkBeforeDisconnect,
                    timeSinceLastPacket |-> body.timeSinceLastPacket,
                    timeoutThreshold |-> body.timeoutThreshold,
                    competitiveAdvantage |-> body.competitiveAdvantage,
                    fairnessConfidence |-> body.fairnessConfidence]
        IN  /\ response.status = 200
            /\ response.json = classifyDisconnect(six)
            /\ classifyCalls = <<six>>

\* a valid request with timeSinceLastPacket 0 and timeoutThreshold 0,
\* answered 200 with the timeout verdict of the engine
C20_Witness ==
    /\ Responded
    /\ body.quitAction = Bool(FALSE)
    /\ body.networkBeforeDisconnect = NoSnapshot(Undef)
    /\ body.timeSinceLastPacket = Num(0)
    /\ body.timeoutThreshold = Num(0)
    /\ body.competitiveAdvantage = Num(100)
    /\ response.status = 200
    /\ response.json.type = "unintentional_disconnect"
    /\ response.json.signals.timeoutDetected

(***************************************************************************)
(* Further properties of classifyDisconnect (specification Spec)           *)
(***************************************************************************)
\* C21: the threshold flags are evaluated independently of the decision: in
\* a result for quitAction = true, timeoutDetected, highPacketLoss,
\* highLatency and hardDisconnect equal the values the threshold rules give
\* for the supplied snapshot and timing.
C21_FlagsEvaluatedOnQuit ==
    (Classified /\ call.arg.quitAction = Bool(TRUE)) =>
        LET net == call.arg.networkBeforeDisconnect
            T == IF call.arg.timeoutThreshold = Undef THEN 5000 * 100
                 ELSE call.arg.timeoutThreshold.n
        IN  /\ call.ret.type = "intentional_disconnect"
            /\ call.ret.signals.timeoutDetected <=>
                  (call.arg.timeSinceLastPacket # Undef /\ call.arg.timeSinceLastPacket.n >= T)
            /\ call.ret.signals.highPacketLoss <=> (SnapshotPresent /\ net.packetLossRate.n >= 25)
            /\ call.ret.signals.highLatency <=> (SnapshotPresent /\ net.latencyMs.n >= 800 * 100)
            /\ call.ret.signals.hardDisconnect <=> (SnapshotPresent /\ net.isConnected = Bool(FALSE))

\* a quit with a timeout and high packet loss both flagged, latency healthy
C21_Witness ==
    /\ Classified
    /\ call.arg.quitAction = Bool(TRUE)
    /\ call.ret.type = "intentional_disconnect"
    /\ call.ret.signals.timeoutDetected
    /\ call.ret.signals.highPacketLoss
    /\ ~call.ret.signals.highLatency
    /\ ~call.ret.signals.hardDisconnect

\* the part of a result that the context values must not influence
Verdict(result) ==
    <<result.type, result.lossApplied, result.signals.quitDetected,
      result.signals.timeoutDetected, result.signals.highPacketLoss,
      result.signals.highLatency, result.signals.hardDisconnect>>

C27_VerdictFromFlags ==
    Classified =>
        call.ret.type =
            IF call.ret.signals.quitDetected = Bool(TRUE) THEN "intentional_disconnect"
            ELSE IF AnyNetworkFlag(call.ret.signals) THEN "unintentional_disconnect"
            ELSE "none"

\* a result whose only raised flag is highLatency
C27_Witness ==
    /\ Classified
    /\ call.ret.signals.quitDetected = Bool(FALSE)
    /\ call.ret.signals.highLatency
    /\ ~call.ret.signals.timeoutDetected
    /\ ~call.ret.signals.highPacketLoss
    /\ ~call.ret.signals.hardDisconnect
    /\ call.ret.type = "unintentional_disconnect"

\* C28: the classifier copied into the verification script agrees with
\* classifyDisconnect on type, lossApplied and the five flags quitDetected,
\* timeoutDetected, highPacketLoss, highLatency, hardDisconnect for every
\* input, with or without competitiveAdvantage and fairnessConfidence.
C28_ScriptCopyAgrees ==
    Classified => Verdict(scriptClassifyDisconnect(call.arg)) = Verdict(call.ret)

\* a hard disconnect on healthy numbers, with both context values supplied
C28_Witness ==
    /\ Classified
    /\ call.arg.quitAction = Bool(FALSE)
    /\ call.arg.networkBeforeDisconnect = Snapshot(Num(0), Num(0), Bool(FALSE))
    /\ call.arg.timeSinceLastPacket = Undef
    /\ call.arg.competitiveAdvantage = Num(-100)
    /\ call.arg.fairnessConfidence = Num(100)
    /\ scriptClassifyDisconnect(call.arg).type = "unintentional_disconnect"
    /\ call.ret.type = "unintentional_disconnect"

(***************************************************************************)
(* Further properties of the POST handler (specification SpecApi)          *)
(***************************************************************************)
\* the checks of the handler, in the order quitAction, networkBeforeDisconnect,
\* competitiveAdvantage, fairnessConfidence, that the body fails
FailedChecks(b) ==
    SelectSeq(<<ErrQuitAction, ErrSnapshot, ErrAdvantage, ErrConfidence>>,
              LAMBDA e : e \in ViolatedConstraints(b))

\* the constraints on the three snapshot fields that the snapshot violates
SnapshotViolations(snap) ==
    (IF snap.latencyMs.t = "number" /\ snap.latencyMs.n < 0 THEN {ErrLatency} ELSE {}) \cup
    (IF /\ snap.packetLossRate.t = "number"
        /\ (snap.packetLossRate.n < 0 \/ snap.packetLossRate.n > 100)
     THEN {ErrPacketLoss} ELSE {}) \cup
    (IF snap.isConnected.t # "boolean" THEN {ErrIsConnected} ELSE {})

\* C22: the handler checks quitAction, networkBeforeDisconnect,
\* competitiveAdvantage, fairnessConfidence in this order and stops at the
\* first failure: a request failing several checks gets one 400 whose error
\* names only the earliest failing check, and when that check is the snapshot,
\* details lists every violated snapshot constraint, each once.
C22_FirstFailureOnly ==
    (Responded /\ body.kind = "object" /\ FailedChecks(body) # <<>>) =>
        /\ response.status = 400
        /\ response.json.error = Head(FailedChecks(body))
        /\ classifyCalls = <<>>
        /\ IF Head(FailedChecks(body)) = ErrSnapshot
           THEN /\ Range(response.json.details) = SnapshotViolations(body.networkBeforeDisconnect)
                /\ Len(response.json.details)
                      = Cardinality(SnapshotViolations(body.networkBeforeDisconnect))
           ELSE DOMAIN response.json = {"error"}

\* a request failing the snapshot check on all three fields and both context
\* checks, answered with the snapshot error and three details
C22_Witness ==
    /\ Responded
    /\ body.kind = "object"
    /\ body.quitAction = Bool(TRUE)
    /\ body.networkBeforeDisconnect = Snapshot(Num(-1), Num(101), Str(0))
    /\ body.competitiveAdvantage = Num(101)
    /\ body.fairnessConfidence = Num(101)
    /\ response.status = 400
    /\ response.json.error = ErrSnapshot
    /\ Len(response.json.details) = 3

\* C29: timeSinceLastPacket and timeoutThreshold are never validated: a
\* request passing the four checks is answered 200 whatever the two timing
\* fields hold, a supplied timeoutThreshold (0 and negative included) is the
\* threshold compared against, and only an absent one becomes 5000.
C29_TimingNotValidated ==
    (/\ Responded
     /\ body.kind = "object"
     /\ FailedChecks(body) = <<>>) =>
        LET T == IF body.timeoutThreshold = Undef THEN 5000 * 100
                 ELSE body.timeoutThreshold.n
        IN  /\ response.status = 200
            /\ classifyCalls # <<>>
            /\ classifyCalls[1].timeSinceLastPacket = body.timeSinceLastPacket
            /\ classifyCalls[1].timeoutThreshold = body.timeoutThreshold
            /\ response.json.signals.timeoutDetected <=>
                  (body.timeSinceLastPacket # Undef /\ body.timeSinceLastPacket.n >= T)
            /\ (body.quitAction = Bool(FALSE) /\ response.json.signals.timeoutDetected) =>
                  response.json.type = "unintentional_disconnect"

\* a negative timeSinceLastPacket against a lower negative timeoutThreshold,
\* accepted and flagged as a timeout
C29_Witness ==
    /\ Responded
    /\ body.kind = "object"
    /\ body.quitAction = Bool(FALSE)
    /\ body.networkBeforeDisconnect = NoSnapshot(Undef)
    /\ body.timeSinceLastPacket = Num(-100)
    /\ body.timeoutThreshold = Num(-200)
    /\ response.status = 200
    /\ response.json.signals.timeoutDetected
    /\ response.json.type = "unintentional_disconnect"

(***************************************************************************)
(* Properties of the sandbox page (specification SpecPage)                 *)
(***************************************************************************)
\* the effect on the status has run: the page shows the outcome of the change
Settled == ~page.statusEffectPending

\* C23: a match that runs until its timer expires, with neither button
\* pressed, ends in status completed with a report showing disconnect
\* detected = no, classification none and loss applied = no, for every
\* pattern of packet reception.
C23_CompletedMatchReportsNone ==
    (page.status = "completed" /\ pressed = "none" /\ Settled) =>
        /\ page.report # Null
        /\ page.report.status = "completed"
        /\ ~page.report.disconnectDetected
        /\ page.report.disconnectClassification = "none"
        /\ ~page.report.lossApplied

\* C24: Quit pressed while the match is running leads to status disconnected
\* and to a report with classification intentional_disconnect and loss
\* applied = yes, whatever the live network state and last-packet time.
C24_QuitReportsIntentional ==
    (pressed = "quit") =>
        /\ page.status = "disconnected"
        /\ Settled =>
              /\ page.report # Null
              /\ page.report.status = "disconnected"
              /\ page.report.disconnectDetected
              /\ page.report.disconnectClassification = "intentional_disconnect"
              /\ page.report.lossApplied

\* a quit on a jittered network, five seconds after the last packet
C24_Witness ==
    /\ pressed = "quit"
    /\ Settled
    /\ page.report # Null
    /\ page.report.disconnectClassification = "intentional_disconnect"
    /\ page.report.lossApplied
    /\ page.report.networkBeforeDisconnect = Snapshot(Num(120 * 100), Num(5), Bool(TRUE))
    /\ page.classificationResult.signals.timeoutDetected

\* C25: Simulate Network Drop pressed while the match is running leads to
\* status disconnected and to a report with classification
\* unintentional_disconnect and loss applied = no, the captured snapshot
\* being the degraded one (latency 1200, loss 0.4, not connected).
C25_DropReportsUnintentional ==
    (pressed = "drop") =>
        /\ page.status = "disconnected"
        /\ ~page.quitPressed
        /\ page.networkBeforeDisconnect = Snapshot(Num(1200 * 100), Num(40), Bool(FALSE))
        /\ Settled =>
              /\ page.report # Null
              /\ page.report.status = "disconnected"
              /\ page.report.disconnectDetected
              /\ page.report.disconnectClassification = "unintentional_disconnect"
              /\ ~page.report.lossApplied
              /\ page.report.networkBeforeDisconnect
                    = Snapshot(Num(1200 * 100), Num(40), Bool(FALSE))

\* a drop right after a received packet: the snapshot alone raises the flags
C25_Witness ==
    /\ pressed = "drop"
    /\ Settled
    /\ page.report # Null
    /\ page.report.disconnectClassification = "unintentional_disconnect"
    /\ ~page.report.lossApplied
    /\ page.classificationResult.signals.hardDisconnect
    /\ page.classificationResult.signals.highLatency
    /\ page.classificationResult.signals.highPacketLoss
    /\ ~page.classificationResult.signals.timeoutDetected

\* the report is there only in a terminal status, and it applies the loss
\* iff Quit was pressed in the match
ReportMatchesStatus ==
    /\ (page.report # Null) => page.status \in {"completed", "disconnected"}
    /\ (page.status \in {"idle", "running"}) => page.report = Null
    /\ (page.report # Null) => (page.report.lossApplied <=> pressed = "quit")
    /\ (page.report # Null) => page.report.status = page.status

\* Start clears the report; Quit and Simulate Network Drop change nothing
\* unless the status is running, and nothing else raises their marks
ButtonsStep ==
    /\ startMatch => page'.report = Null
    /\ ((handleQuitIntentional \/ handleSimulateNetworkDrop) /\ page.status # "running")
          => UNCHANGED vars
    /\ (\/ page'.quitPressed /\ ~page.quitPressed
        \/ page'.networkDropInjectedRef /\ ~page.networkDropInjectedRef
        \/ pressed' # pressed /\ pressed' # "none")
          => page.status = "running" /\ page'.status = "disconnected"

\* C30: after any sequence of Start, Quit, Simulate Network Drop and timer
\* ticks, a report exists only while the status is completed or disconnected
\* (cleared on Start, absent while idle or running), its lossApplied is true
\* iff Quit was pressed in that match, and Quit and Simulate Network Drop
\* change nothing unless the status is running.
C30_ReportLifecycle == []ReportMatchesStatus /\ [][ButtonsStep]_vars

\* a second match is running after a quit: the first report has been cleared
C30_Witness ==
    /\ page.status = "running"
    /\ page.report = Null
    /\ ~page.quitPressed
    /\ pressed = "none"
    /\ page.lastPacketTime.n > DateNow(2).n
    /\ page.remaining = MATCH_DURATION_SECONDS - 1

====
